---- MODULE Spec2Model ----
(***************************************************************************)
(* Host-side fusion loop of APDde.py: five device output queues, the       *)
(* cached frames and detections, the disparity-to-depth conversion, the    *)
(* detection-to-depth correlation and the overlay drawn onto the cached    *)
(* disparity image.                                                        *)
(*                                                                         *)
(* Units.  A bounding-box value is a float; the model draws it from        *)
(* multiples of 1/BboxDen (dyadic, so that value * 400 is exact in binary  *)
(* floating point and .astype(int) is the integer quotient).  A confidence *)
(* is a multiple of 1/ConfDen.  A depth is the rational num/den in         *)
(* millimetres (focal_length in pixels times the 75 mm baseline, over the  *)
(* normalized disparity); den = 0 is the IEEE infinity of a division by    *)
(* zero.  A frame is piecewise constant on the cells of Cells (left and    *)
(* right half of the sensor): the pixel functions below are applied per    *)
(* cell, the bounds of an index are checked on the pixel itself.           *)
(***************************************************************************)
EXTENDS Integers, Sequences, FiniteSets, TLC

VARIABLES
    pc,               \* position of the script in the main loop
    qRight, qManip, qDisparity, qDet, qRgbEnc,      \* device output queues
    produced,         \* per stream, how many items the device has enqueued
    inRight, inManip, inDet, inDisparity,           \* this tick's tryGet results
    frame, frameManip, frameDisparity, detections,  \* the cached values
    depth_calculated, \* the depth map of the last converted disparity frame
    videoFile,        \* the sink: handle state and the chunks written
    window,           \* the "disparity" window
    keyPressed,       \* a 'q' key event is pending for cv2.waitKey
    tick,             \* what the running tick has done (start snapshot, shown image, printed lines)
    received,         \* per cached stream, how many items tryGet has returned
    error,            \* the exception that ended the script, "" if none
    focal_length, maxDisparity,                     \* calibration read at startup
    fnIn, fnOut       \* input and result of a single function application

loopVars == <<pc, qRight, qManip, qDisparity, qDet, qRgbEnc, produced,
              inRight, inManip, inDet, inDisparity,
              frame, frameManip, frameDisparity, detections, depth_calculated,
              videoFile, window, keyPressed, tick, received, error>>
calibVars == <<focal_length, maxDisparity>>
fnVars == <<fnIn, fnOut>>
vars == <<loopVars, calibVars, fnVars>>

----------------------------------------------------------------------------
(* Program constants *)

labelMap == <<"background", "aeroplane", "bicycle", "bird", "boat", "bottle",
              "bus", "car", "cat", "chair", "cow", "diningtable", "dog",
              "horse", "motorbike", "person", "pottedplant", "sheep", "sofa",
              "train", "tvmonitor">>

includedLabels == {"person", "car", "motorbike", "bicycle", "bus",
                   "aeroplane", "background", "train"}

\* baseline = 0.075 m, in millimetres
baselineMm == 75

\* THE_400_P mono sensor: 640 x 400
resolutionWidth == 640
resolutionHeight == 400

queueSize == 8
encQueueSize == 30

\* offsetX = (width - height) // 2, for a sensor of w x h
offsetXOf(w, h) == (w - h) \div 2
offsetX == offsetXOf(resolutionWidth, resolutionHeight)

\* np.zeros((height, width)).shape, taken for the cropped frame
fullShapeOf(w, h) == <<h, w>>

\* croppedFrame.shape = (height, height), for a sensor of w x h
croppedShapeOf(w, h) == <<h, h>>
croppedFrameShape == croppedShapeOf(resolutionWidth, resolutionHeight)

\* shape of a disparity frame and of the depth map computed from it
frameShape == <<resolutionHeight, resolutionWidth>>

\* getMaxDisparity() of the stereo node as configured (no subpixel, no extended mode)
defaultMaxDisparity == 95

----------------------------------------------------------------------------
(* Bounds and input sets *)

MaxFrames == 1       \* right / manip frames the device produces
MaxDisparityFrames == 2
MaxDetectionSets == 2
MaxChunks == 2       \* encoded chunks the encoder produces
MaxMessages == 4     \* messages the device produces on all streams together
MaxRaw == 130        \* largest raw disparity given to the converter alone
MaxSink == 4         \* chunks at the end of the file that the state holds

BboxDen == 32
ConfDen == 128

Cells == {1, 2}
Streams == {"right", "manip", "disparity", "nn"}

----------------------------------------------------------------------------
(* Values *)

NoFrame == 0
NoDisparity == [id |-> 0, raw |-> [c \in Cells |-> 0]]
NoDetections == [id |-> 0, detections |-> <<>>]
NoImage == [id |-> 0, base |-> [c \in Cells |-> 0], drawn |-> {}]
ZeroDepth == [num |-> 0, den |-> 1]
\* depth_calculated = 0 at startup: a scalar, not a map
ScalarDepth == [src |-> 0, shape |-> "scalar", val |-> [c \in Cells |-> ZeroDepth]]

Last(s) == s[Len(s)]
Front(s) == SubSeq(s, 1, Len(s) - 1)

----------------------------------------------------------------------------
(* DepthConverter: lines 82, 131-136 *)

\* frameDisparity * disparityMultiplier, truncated toward zero by astype.
\* disparityMultiplier = 255 / maxDisparity; for the maxDisparity values of
\* the model the float product truncates to the exact integer quotient.
Scaled(raw, md) == (raw * 255) \div md

\* .astype(np.uint8) of a float: a value of 0..255 is kept; the conversion of
\* a larger one is undefined in C, and a build wraps it or saturates it.
CastUint8(v) == IF v < 256 THEN {v} ELSE {v % 256, 255}

\* the normalized 8-bit disparities a raw sample can become
Normalized(raw, md) == CastUint8(Scaled(raw, md))

\* the normalized frames of a raw frame
NormalizedFrames(raw, md) ==
    {nm \in [Cells -> UNION {Normalized(raw[c], md) : c \in Cells}] :
        \A c \in Cells : nm[c] \in Normalized(raw[c], md)}

\* (focal_length * baseline) / frameDisparity under errstate(ignore): a zero
\* divisor gives inf (den = 0)
Quotient(f, n) == [num |-> f * baselineMm, den |-> n]

DepthOfUnmasked(f, n) == Quotient(f, n)

\* depth_calculated[frameDisparity == 0] = 0 applied to the quotient
DepthOf(f, n) == IF n = 0 THEN ZeroDepth ELSE Quotient(f, n)

\* depth_calculated left as it is at startup
DepthMapScalar(id, nm, f) == ScalarDepth

\* lines 131-135: the depth map of a normalized frame
DepthMap(id, nm, f) ==
    [src |-> id, shape |-> "map", val |-> [c \in Cells |-> DepthOf(f, nm[c])]]

\* line 136: the colour-mapped image, nothing drawn on it yet
ColorMap(id, nm) == [id |-> id, base |-> nm, drawn |-> {}]

----------------------------------------------------------------------------
(* DetectionFuser: lines 106-109, 143-153 *)

\* np.clip with the upper limit lost
ClipLow(v) == IF v < 0 THEN 0 ELSE v

\* np.clip(bbox, 0, 1)
Clip(v) == IF v < 0 THEN 0 ELSE IF v > BboxDen THEN BboxDen ELSE v

\* frameNorm: even Python indices (odd here) are scaled by shape[1], the
\* others by shape[0]; astype(int) truncates
frameNorm(shape, bbox) ==
    [i \in 1..Len(bbox) |->
        (Clip(bbox[i]) * (IF i % 2 = 1 THEN shape[2] ELSE shape[1])) \div BboxDen]

\* bbox += offsetX: every coordinate shifted
ShiftAllBy(b, off) == [i \in 1..Len(b) |-> b[i] + off]

\* bbox[::2] += offsetX
ShiftXBy(b, off) == [i \in 1..Len(b) |-> IF i % 2 = 1 THEN b[i] + off ELSE b[i]]
ShiftX(b) == ShiftXBy(b, offsetX)

BboxOf(det) == <<det.xmin, det.ymin, det.xmax, det.ymax>>

\* lines 144-145 for a sensor of w x h
PixelBoxAt(w, h, bbox) ==
    ShiftXBy(frameNorm(croppedShapeOf(w, h), bbox), offsetXOf(w, h))

PixelBox(det) == PixelBoxAt(resolutionWidth, resolutionHeight, BboxOf(det))

\* center_x, center_y = int((bbox[0]+bbox[2])/2), int((bbox[1]+bbox[3])/2)
Center(b) == [x |-> (b[1] + b[3]) \div 2, y |-> (b[2] + b[4]) \div 2]

\* depth_calculated[center_y, center_x] raises IndexError unless both
\* indices are in -n..n-1 of their axis
IndexOk(shape, cy, cx) ==
    /\ cy >= -shape[1] /\ cy < shape[1]
    /\ cx >= -shape[2] /\ cx < shape[2]

\* the cell of a pixel (a negative index counts from the end)
CellOf(cy, cx) == IF (cx % resolutionWidth) < resolutionWidth \div 2 THEN 1 ELSE 2

\* labelMap[detection.label]: the label id is an unsigned integer
LabelOk(det) == det.label + 1 <= Len(labelMap)
LabelName(det) == labelMap[det.label + 1]

\* int(detection.confidence * 100)
ConfPct(det) == (det.confidence * 100) \div ConfDen

----------------------------------------------------------------------------
(* Overlay: lines 142-155.  An image is its colour-mapped base and the set *)
(* of elements drawn on it; drawing an element twice changes nothing.      *)

Element(kind, box, name, pct, d) ==
    [kind |-> kind, box |-> box, name |-> name, pct |-> pct, depth |-> d]

\* lines 146-148: the rectangle and the two texts drawn before the depth lookup
DrawnBeforeLookup(det) ==
    LET b == PixelBox(det) IN
    { Element("rectangle", b, "", 0, ZeroDepth),
      Element("label", b, LabelName(det), 0, ZeroDepth),
      Element("confidence", b, "", ConfPct(det), ZeroDepth) }

\* line 152: the distance text
DrawnAfterLookup(det, d) == { Element("distance", PixelBox(det), "", 0, d) }

\* line 153: the printed line
Line(det, d) == [name |-> LabelName(det), depth |-> d, pct |-> ConfPct(det)]

\* line 143
Included(det) == LabelName(det) \in includedLabels

\* One iteration of the for loop on r = [drawn, printed, err].  dm is
\* depth_calculated.
RenderOne(r, det, dm) ==
    IF r.err # "" THEN r
    ELSE IF ~LabelOk(det) THEN [r EXCEPT !.err = "IndexError: labelMap"]
    ELSE IF ~Included(det) THEN r
    ELSE LET c == Center(PixelBox(det))
             before == r.drawn \cup DrawnBeforeLookup(det)
         IN  IF dm.shape # "map"
             THEN [r EXCEPT !.drawn = before, !.err = "TypeError: depth_calculated"]
             ELSE IF ~IndexOk(frameShape, c.y, c.x)
             THEN [r EXCEPT !.drawn = before, !.err = "IndexError: depth_calculated"]
             ELSE LET d == dm.val[CellOf(c.y, c.x)] IN
                  [drawn |-> before \cup DrawnAfterLookup(det, d),
                   printed |-> Append(r.printed, Line(det, d)),
                   err |-> ""]

RECURSIVE RenderAll(_, _, _)
RenderAll(r, dets, dm) ==
    IF dets = <<>> THEN r
    ELSE RenderAll(RenderOne(r, Head(dets), dm), Tail(dets), dm)

\* lines 142-153 on the image img
Render(img, dets, dm) ==
    RenderAll([drawn |-> img.drawn, printed |-> <<>>, err |-> ""], dets, dm)

----------------------------------------------------------------------------
(* Inputs the device can deliver in the loop *)

Detection(l, c, b) ==
    [label |-> l, confidence |-> c, xmin |-> b[1], ymin |-> b[2], xmax |-> b[3], ymax |-> b[4]]

\* a box left of the centre, a box reaching past the right and the top edge,
\* a box collapsed onto the bottom edge
BoxLeft == <<4, 8, 12, 24>>
BoxRight == <<20, -6, 40, 16>>
BoxBottom == <<8, 32, 24, 36>>

\* the DetectionSets the nn stream delivers: none, a person (label 15), a
\* person on the bottom edge, a dog (label 12) followed by a person
LoopDetectionSets ==
    { <<>>,
      << Detection(15, 116, BoxLeft) >>,
      << Detection(15, 116, BoxBottom) >>,
      << Detection(12, 116, BoxLeft), Detection(15, 64, BoxRight) >> }

\* raw disparity of the left and of the right half
LoopFrames == { <<95, 0>>, <<0, 40>> }
FocalLengths == {441, 883}
\* intrinsics[0][0] of the device the loop runs on
LoopFocalLengths == {441}

----------------------------------------------------------------------------
(* The main loop: lines 85-162 *)

Snapshot == [frame |-> frame, frameManip |-> frameManip,
             frameDisparity |-> frameDisparity, detections |-> detections,
             queued |-> Len(qRgbEnc)]

IdleTick == [start |-> [frame |-> NoFrame, frameManip |-> NoFrame,
                        frameDisparity |-> NoImage, detections |-> NoDetections,
                        queued |-> 0],
             pending |-> <<>>,
             rendered |-> FALSE, shown |-> NoImage, printed |-> <<>>]

Running == {"poll", "drain", "process", "waitKey"}

\* lines 87-112: the state when the loop is entered
InitLoop ==
    /\ pc = "poll"
    /\ qRight = <<>> /\ qManip = <<>> /\ qDisparity = <<>> /\ qDet = <<>>
    /\ qRgbEnc = <<>>
    /\ produced = [s \in Streams \cup {"h265"} |-> 0]
    /\ inRight = NoFrame /\ inManip = NoFrame
    /\ inDet = NoDetections /\ inDisparity = NoDisparity
    /\ frame = NoFrame /\ frameManip = NoFrame
    /\ frameDisparity = NoImage
    /\ detections = NoDetections
    /\ depth_calculated = ScalarDepth
    /\ videoFile = [open |-> TRUE, closes |-> 0, data |-> <<>>]
    /\ window = [open |-> TRUE]
    /\ keyPressed = FALSE
    /\ tick = IdleTick
    /\ received = [s \in Streams |-> 0]
    /\ error = ""

NoFn == [kind |-> "none"]

Init ==
    /\ InitLoop
    /\ focal_length \in LoopFocalLengths
    /\ maxDisparity = defaultMaxDisparity
    /\ fnIn = NoFn /\ fnOut = NoFn

(* The device.  The four vision queues are created by                      *)
(* getOutputQueue(name, queueSize), whose blocking parameter defaults to   *)
(* True, and the encoder queue with blocking=True: a full queue holds the  *)
(* producer back.  An exception leaves the with block of line 85, which    *)
(* closes the device: nothing arrives after it.                            *)

DeviceOpen == pc \notin {"crashed", "interrupted"}

RECURSIVE Sum(_, _)
Sum(f, S) == IF S = {} THEN 0 ELSE LET x == CHOOSE y \in S : TRUE IN f[x] + Sum(f, S \ {x})

\* the device still has a message to send within the bounds of the model
CanSend == DeviceOpen /\ Sum(produced, DOMAIN produced) < MaxMessages

SendRight ==
    /\ CanSend
    /\ produced["right"] < MaxFrames
    /\ Len(qRight) < queueSize
    /\ qRight' = Append(qRight, produced["right"] + 1)
    /\ produced' = [produced EXCEPT !["right"] = @ + 1]
    /\ UNCHANGED <<pc, qManip, qDisparity, qDet, qRgbEnc, inRight, inManip, inDet,
                   inDisparity, frame, frameManip, frameDisparity, detections,
                   depth_calculated, videoFile, window, keyPressed, tick, received,
                   error, calibVars, fnVars>>

SendManip ==
    /\ CanSend
    /\ produced["manip"] < MaxFrames
    /\ Len(qManip) < queueSize
    /\ qManip' = Append(qManip, produced["manip"] + 1)
    /\ produced' = [produced EXCEPT !["manip"] = @ + 1]
    /\ UNCHANGED <<pc, qRight, qDisparity, qDet, qRgbEnc, inRight, inManip, inDet,
                   inDisparity, frame, frameManip, frameDisparity, detections,
                   depth_calculated, videoFile, window, keyPressed, tick, received,
                   error, calibVars, fnVars>>

SendDisparity ==
    /\ CanSend
    /\ produced["disparity"] < MaxDisparityFrames
    /\ Len(qDisparity) < queueSize
    /\ \E raw \in LoopFrames :
          qDisparity' = Append(qDisparity, [id |-> produced["disparity"] + 1, raw |-> raw])
    /\ produced' = [produced EXCEPT !["disparity"] = @ + 1]
    /\ UNCHANGED <<pc, qRight, qManip, qDet, qRgbEnc, inRight, inManip, inDet,
                   inDisparity, frame, frameManip, frameDisparity, detections,
                   depth_calculated, videoFile, window, keyPressed, tick, received,
                   error, calibVars, fnVars>>

SendDetections ==
    /\ CanSend
    /\ produced["nn"] < MaxDetectionSets
    /\ Len(qDet) < queueSize
    /\ \E ds \in LoopDetectionSets :
          qDet' = Append(qDet, [id |-> produced["nn"] + 1, detections |-> ds])
    /\ produced' = [produced EXCEPT !["nn"] = @ + 1]
    /\ UNCHANGED <<pc, qRight, qManip, qDisparity, qRgbEnc, inRight, inManip, inDet,
                   inDisparity, frame, frameManip, frameDisparity, detections,
                   depth_calculated, videoFile, window, keyPressed, tick, received,
                   error, calibVars, fnVars>>

SendChunk ==
    /\ CanSend
    /\ produced["h265"] < MaxChunks
    /\ Len(qRgbEnc) < encQueueSize
    /\ qRgbEnc' = Append(qRgbEnc, produced["h265"] + 1)
    /\ produced' = [produced EXCEPT !["h265"] = @ + 1]
    /\ UNCHANGED <<pc, qRight, qManip, qDisparity, qDet, inRight, inManip, inDet,
                   inDisparity, frame, frameManip, frameDisparity, detections,
                   depth_calculated, videoFile, window, keyPressed, tick, received,
                   error, calibVars, fnVars>>

\* the user presses 'q' in the window
PressQ ==
    /\ pc \in Running
    /\ ~keyPressed
    /\ keyPressed' = TRUE
    /\ UNCHANGED <<pc, qRight, qManip, qDisparity, qDet, qRgbEnc, produced, inRight,
                   inManip, inDet, inDisparity, frame, frameManip, frameDisparity,
                   detections, depth_calculated, videoFile, window, tick, received,
                   error, calibVars, fnVars>>

\* tryGet: the front message of the queue, or None at once
TryGet(q, none) == IF q = <<>> THEN none ELSE Head(q)
AfterTryGet(q) == IF q = <<>> THEN q ELSE Tail(q)

\* lines 115-118.  The four tryGet calls are taken as one step: each touches
\* its own queue, so a device step between two of them commutes with them.
Poll ==
    /\ pc = "poll"
    /\ inRight' = TryGet(qRight, NoFrame)
    /\ inManip' = TryGet(qManip, NoFrame)
    /\ inDet' = TryGet(qDet, NoDetections)
    /\ inDisparity' = TryGet(qDisparity, NoDisparity)
    /\ qRight' = AfterTryGet(qRight)
    /\ qManip' = AfterTryGet(qManip)
    /\ qDet' = AfterTryGet(qDet)
    /\ qDisparity' = AfterTryGet(qDisparity)
    /\ received' = [received EXCEPT
                       !["right"] = @ + Len(qRight) - Len(qRight'),
                       !["manip"] = @ + Len(qManip) - Len(qManip'),
                       !["nn"] = @ + Len(qDet) - Len(qDet'),
                       !["disparity"] = @ + Len(qDisparity) - Len(qDisparity')]
    /\ tick' = [IdleTick EXCEPT !.start = Snapshot, !.pending = qRgbEnc]
    /\ pc' = "drain"
    /\ UNCHANGED <<qRgbEnc, produced, frame, frameManip, frameDisparity, detections,
                   depth_calculated, videoFile, window, keyPressed, error,
                   calibVars, fnVars>>

\* tofile appends to the file.  The state holds the last MaxSink chunks of
\* the file; what was written before them stays in the file and is not
\* looked at again.
Written(data, chunk) ==
    IF Len(data) < MaxSink THEN Append(data, chunk) ELSE Append(Tail(data), chunk)

\* of the chunks queued when the drain started, those not yet written
StillPending(pending, chunk) ==
    IF pending # <<>> /\ Head(pending) = chunk THEN Tail(pending) ELSE pending

\* lines 120-121, one iteration: has() is true, get() and tofile(videoFile)
DrainChunkNewest ==
    /\ pc = "drain"
    /\ qRgbEnc # <<>>
    /\ videoFile' = [videoFile EXCEPT !.data = Written(@, Last(qRgbEnc))]
    /\ qRgbEnc' = Front(qRgbEnc)
    /\ tick' = [tick EXCEPT !.pending = StillPending(@, Last(qRgbEnc))]
    /\ UNCHANGED <<pc, qRight, qManip, qDisparity, qDet, produced, inRight, inManip,
                   inDet, inDisparity, frame, frameManip, frameDisparity, detections,
                   depth_calculated, window, keyPressed, received, error,
                   calibVars, fnVars>>

DrainChunk ==
    /\ pc = "drain"
    /\ qRgbEnc # <<>>
    /\ videoFile' = [videoFile EXCEPT !.data = Written(@, Head(qRgbEnc))]
    /\ qRgbEnc' = Tail(qRgbEnc)
    /\ tick' = [tick EXCEPT !.pending = StillPending(@, Head(qRgbEnc))]
    /\ UNCHANGED <<pc, qRight, qManip, qDisparity, qDet, produced, inRight, inManip,
                   inDet, inDisparity, frame, frameManip, frameDisparity, detections,
                   depth_calculated, window, keyPressed, received, error,
                   calibVars, fnVars>>

\* the while loop left after any number of iterations
DrainEndEarly ==
    /\ pc = "drain"
    /\ pc' = "process"
    /\ UNCHANGED <<qRight, qManip, qDisparity, qDet, qRgbEnc, produced, inRight,
                   inManip, inDet, inDisparity, frame, frameManip, frameDisparity,
                   detections, depth_calculated, videoFile, window, keyPressed, tick,
                   received, error, calibVars, fnVars>>

\* line 120: has() is false, the while loop ends
DrainEnd ==
    /\ pc = "drain"
    /\ qRgbEnc = <<>>
    /\ pc' = "process"
    /\ UNCHANGED <<qRight, qManip, qDisparity, qDet, qRgbEnc, produced, inRight,
                   inManip, inDet, inDisparity, frame, frameManip, frameDisparity,
                   detections, depth_calculated, videoFile, window, keyPressed, tick,
                   received, error, calibVars, fnVars>>

\* line 141: if frameDisparity is not None, on a tick that got a new frame only
RenderGuardFresh(img) == img.id # 0 /\ inDisparity.id # 0

\* line 141: if frameDisparity is not None
RenderGuard(img) == img.id # 0

\* only what this tick's poll returned, nothing when it returned None
PolledDetections == inDet

\* lines 138-139: if inDet is not None: detections = inDet.detections
CachedDetections == IF inDet.id # 0 THEN inDet ELSE detections

\* lines 123-155 with the normalized frame nm of this tick's disparity frame
ProcessWith(nm) ==
    LET got == inDisparity.id # 0
        img == IF got THEN ColorMap(inDisparity.id, nm) ELSE frameDisparity
        dm == IF got THEN DepthMap(inDisparity.id, nm, focal_length) ELSE depth_calculated
        dets == CachedDetections
        guard == RenderGuard(img)
        r == IF guard THEN Render(img, dets.detections, dm)
             ELSE [drawn |-> img.drawn, printed |-> <<>>, err |-> ""]
        out == [img EXCEPT !.drawn = r.drawn]
    IN  /\ frame' = IF inRight # NoFrame THEN inRight ELSE frame
        /\ frameManip' = IF inManip # NoFrame THEN inManip ELSE frameManip
        /\ detections' = dets
        /\ depth_calculated' = dm
        /\ frameDisparity' = out
        /\ error' = r.err
        /\ pc' = IF r.err = "" THEN "waitKey" ELSE "crashed"
        /\ tick' = [tick EXCEPT !.rendered = guard,
                                !.shown = IF guard /\ r.err = "" THEN out ELSE NoImage,
                                !.printed = r.printed]

Process ==
    /\ pc = "process"
    /\ \E nm \in NormalizedFrames(inDisparity.raw, maxDisparity) : ProcessWith(nm)
    /\ UNCHANGED <<qRight, qManip, qDisparity, qDet, qRgbEnc, produced, inRight,
                   inManip, inDet, inDisparity, videoFile, window, keyPressed,
                   received, calibVars, fnVars>>

\* lines 157-158 with the break lost: 'q' is consumed and the loop goes on
QuitCheckContinue ==
    /\ pc = "waitKey"
    /\ keyPressed
    /\ keyPressed' = FALSE
    /\ pc' = "poll"
    /\ tick' = IdleTick
    /\ UNCHANGED <<qRight, qManip, qDisparity, qDet, qRgbEnc, produced, inRight,
                   inManip, inDet, inDisparity, frame, frameManip, frameDisparity,
                   detections, depth_calculated, videoFile, window, received, error,
                   calibVars, fnVars>>

\* lines 157-158 and 161-162: cv2.waitKey(1) == ord('q') breaks out of the
\* loop; the two prints follow and the script ends
Quit ==
    /\ pc = "waitKey"
    /\ keyPressed
    /\ keyPressed' = FALSE
    /\ pc' = "done"
    /\ tick' = IdleTick
    /\ UNCHANGED <<qRight, qManip, qDisparity, qDet, qRgbEnc, produced, inRight,
                   inManip, inDet, inDisparity, frame, frameManip, frameDisparity,
                   detections, depth_calculated, videoFile, window, received, error,
                   calibVars, fnVars>>

\* line 157: no 'q': the next iteration
NextTick ==
    /\ pc = "waitKey"
    /\ ~keyPressed
    /\ pc' = "poll"
    /\ tick' = IdleTick
    /\ UNCHANGED <<qRight, qManip, qDisparity, qDet, qRgbEnc, produced, inRight,
                   inManip, inDet, inDisparity, frame, frameManip, frameDisparity,
                   detections, depth_calculated, videoFile, window, keyPressed,
                   received, error, calibVars, fnVars>>

\* Ctrl+C (comment of line 160): KeyboardInterrupt wherever the loop is
Interrupt ==
    /\ pc \in Running
    /\ pc' = "interrupted"
    /\ error' = "KeyboardInterrupt"
    /\ UNCHANGED <<qRight, qManip, qDisparity, qDet, qRgbEnc, produced, inRight,
                   inManip, inDet, inDisparity, frame, frameManip, frameDisparity,
                   detections, depth_calculated, videoFile, window, keyPressed, tick,
                   received, calibVars, fnVars>>

Next ==
    \/ SendRight \/ SendManip \/ SendDisparity \/ SendDetections \/ SendChunk
    \/ PressQ
    \/ Poll \/ DrainChunk \/ DrainEnd \/ Process \/ Quit \/ NextTick
    \/ Interrupt

Spec == Init /\ [][Next]_vars

----------------------------------------------------------------------------
(* The loop against an encoder that never stops.  The encoder enqueues a   *)
(* chunk whenever the h265 queue has room (maxSize 30, blocking), at any   *)
(* moment of the tick; the other streams are silent.  Chunks are numbered  *)
(* round a ring of EncIds numbers, one more than the queue holds, so that  *)
(* the chunks in the queue are told apart; produced["h265"] counts on the  *)
(* same ring.  The script itself always takes its next step.               *)

EncIds == encQueueSize + 1

EncSend ==
    /\ pc \in Running
    /\ Len(qRgbEnc) < encQueueSize
    /\ qRgbEnc' = Append(qRgbEnc, (produced["h265"] % EncIds) + 1)
    /\ produced' = [produced EXCEPT !["h265"] = (@ + 1) % EncIds]
    /\ UNCHANGED <<pc, qRight, qManip, qDisparity, qDet, inRight, inManip, inDet,
                   inDisparity, frame, frameManip, frameDisparity, detections,
                   depth_calculated, videoFile, window, keyPressed, tick, received,
                   error, calibVars, fnVars>>

\* one step of the script
LoopStep == Poll \/ DrainChunk \/ DrainEnd \/ Process \/ Quit \/ NextTick

NextEnc ==
    \/ EncSend
    \/ PressQ
    \/ Poll \/ DrainChunk \/ DrainEnd \/ Process \/ Quit \/ NextTick

SpecEnc == Init /\ [][NextEnc]_vars /\ WF_vars(LoopStep)

----------------------------------------------------------------------------
(* The converter alone: one raw sample under one calibration *)

MaxDisparities == {95, 96}

InitConv ==
    /\ InitLoop
    /\ focal_length \in FocalLengths
    /\ maxDisparity \in MaxDisparities
    /\ fnIn \in [kind : {"convert"}, raw : 0..MaxRaw]
    /\ fnOut = NoFn

\* lines 132-135 on one sample
ApplyConvert ==
    /\ fnIn.kind = "convert" /\ fnOut.kind = "none"
    /\ \E n \in Normalized(fnIn.raw, maxDisparity) :
          fnOut' = [kind |-> "convert", norm |-> n, depth |-> DepthOf(focal_length, n)]
    /\ UNCHANGED <<loopVars, calibVars, fnIn>>

NextConv == ApplyConvert

SpecConv == InitConv /\ [][NextConv]_vars

----------------------------------------------------------------------------
(* The converter on two samples of one frame.  maxDisparity is 95 as       *)
(* configured, or 760, what getMaxDisparity() returns with subpixel        *)
(* disparity enabled.                                                      *)

PairMaxDisparities == {defaultMaxDisparity, 8 * defaultMaxDisparity}

InitPair ==
    /\ InitLoop
    /\ focal_length \in FocalLengths
    /\ maxDisparity \in PairMaxDisparities
    /\ fnIn \in { p \in [kind : {"pair"}, raw1 : 0..MaxRaw, raw2 : 0..MaxRaw] :
                     p.raw1 < p.raw2 }
    /\ fnOut = NoFn

\* lines 132-135 on two samples; one array conversion treats every
\* out-of-range value the same way
ApplyPair ==
    /\ fnIn.kind = "pair" /\ fnOut.kind = "none"
    /\ \E n1 \in Normalized(fnIn.raw1, maxDisparity),
          n2 \in Normalized(fnIn.raw2, maxDisparity) :
          /\ (Scaled(fnIn.raw1, maxDisparity) > 255
                 /\ Scaled(fnIn.raw2, maxDisparity) > 255) =>
                ((n1 = Scaled(fnIn.raw1, maxDisparity) % 256)
                    <=> (n2 = Scaled(fnIn.raw2, maxDisparity) % 256))
          /\ fnOut' = [kind |-> "pair", norm1 |-> n1, norm2 |-> n2,
                       depth1 |-> DepthOf(focal_length, n1),
                       depth2 |-> DepthOf(focal_length, n2)]
    /\ UNCHANGED <<loopVars, calibVars, fnIn>>

NextPair == ApplyPair

SpecPair == InitPair /\ [][NextPair]_vars

(* The fuser alone: one detection against the depth map of one frame *)

FuseBboxValues == {-8, 0, 13, 19, 32, 40}
FuseLabels == {15, 12, 21}
FuseDetections ==
    { Detection(l, 116, <<a, b, c, d>>) :
        l \in FuseLabels, a \in FuseBboxValues, b \in FuseBboxValues,
        c \in FuseBboxValues, d \in FuseBboxValues }

InitFuse ==
    /\ InitLoop
    /\ focal_length \in LoopFocalLengths
    /\ maxDisparity = defaultMaxDisparity
    /\ fnIn \in [kind : {"fuse"}, det : FuseDetections,
                 dm : { DepthMap(1, nm, focal_length) :
                          nm \in UNION { NormalizedFrames(fr, maxDisparity) : fr \in LoopFrames } }]
    /\ fnOut = NoFn

\* lines 143-153 on one detection
ApplyFuse ==
    /\ fnIn.kind = "fuse" /\ fnOut.kind = "none"
    /\ LET det == fnIn.det
           known == LabelOk(det)
       IN  fnOut' = [kind |-> "fuse",
                     sampled |-> known /\ Included(det),
                     scaled |-> frameNorm(croppedFrameShape, BboxOf(det)),
                     box |-> PixelBox(det),
                     center |-> Center(PixelBox(det)),
                     r |-> RenderOne([drawn |-> {}, printed |-> <<>>, err |-> ""],
                                     det, fnIn.dm)]
    /\ UNCHANGED <<loopVars, calibVars, fnIn>>

NextFuse == ApplyFuse

SpecFuse == InitFuse /\ [][NextFuse]_vars

(* Box denormalization alone: one bbox on one sensor resolution *)

\* sensor resolutions with an even difference of width and height, a square
\* one among them
EvenResolutions == { <<640, 400>>, <<640, 480>>, <<1280, 720>>, <<1280, 800>>, <<400, 400>> }
\* and with an odd one
AnyResolutions == EvenResolutions \cup { <<641, 400>>, <<401, 400>> }

Bboxes ==
    { <<a, b, c, d>> : a \in FuseBboxValues, b \in FuseBboxValues,
                       c \in FuseBboxValues, d \in FuseBboxValues }

InitBoxOn(resolutions) ==
    /\ InitLoop
    /\ focal_length \in LoopFocalLengths
    /\ maxDisparity = defaultMaxDisparity
    /\ fnIn \in [kind : {"box"}, res : resolutions, bbox : Bboxes]
    /\ fnOut = NoFn

InitBox == InitBoxOn(EvenResolutions)
InitBoxAny == InitBoxOn(AnyResolutions)

\* lines 102, 104, 144-145 on one bbox
ApplyBox ==
    /\ fnIn.kind = "box" /\ fnOut.kind = "none"
    /\ LET w == fnIn.res[1]
           h == fnIn.res[2]
       IN  fnOut' = [kind |-> "box",
                     offset |-> offsetXOf(w, h),
                     scaled |-> frameNorm(croppedShapeOf(w, h), fnIn.bbox),
                     box |-> PixelBoxAt(w, h, fnIn.bbox)]
    /\ UNCHANGED <<loopVars, calibVars, fnIn>>

NextBox == ApplyBox

SpecBox == InitBox /\ [][NextBox]_vars
SpecBoxAny == InitBoxAny /\ [][NextBox]_vars

----------------------------------------------------------------------------
(* Properties *)

Terminal == {"done", "crashed", "interrupted"}

\* C1: a tick takes the render block exactly when a disparity frame has been
\* received on this or an earlier tick, and a tick that reaches its quit check
\* has handed an image to the display exactly in that case; nothing is shown
\* or printed before the first disparity frame.
C1_RenderIffDisparityReceived ==
    /\ pc \in {"waitKey", "crashed"} => (tick.rendered <=> received["disparity"] > 0)
    /\ pc = "waitKey" => ((tick.shown # NoImage) <=> received["disparity"] > 0)
    /\ received["disparity"] = 0 => (tick.shown = NoImage /\ tick.printed = <<>>)

\* a tick whose disparity poll returned nothing has rendered
C1_Witness ==
    /\ pc = "waitKey" /\ inDisparity.id = 0
    /\ tick.rendered /\ tick.shown # NoImage

\* the chunks the encoder has enqueued, in order
Enqueued == [i \in 1..produced["h265"] |-> i]

\* C2: the chunks written to the sink followed by the chunks still queued are
\* the chunks the encoder enqueued, in order: the sink holds a prefix of them,
\* none twice, none skipped.
C2_SinkIsPrefixOfEnqueued ==
    /\ videoFile.data \o qRgbEnc = Enqueued
    /\ Len(videoFile.data) <= produced["h265"]
    /\ \A i \in 1..Len(videoFile.data) : videoFile.data[i] = i

\* two chunks written, the second one in a later drain than the first
C2_Witness ==
    /\ Len(videoFile.data) >= 2
    /\ qRgbEnc = <<>>
    /\ pc = "waitKey"

\* what the loop owns: a step of the loop changes some of it
LoopOwned == <<pc, inRight, inManip, inDet, inDisparity, frame, frameManip,
               frameDisparity, detections, depth_calculated, videoFile, tick,
               received, error, Len(qRgbEnc) - produced["h265"]>>

\* C3: the quit check that sees the 'q' ends the loop (or Ctrl+C does), and
\* once the loop is done nothing is polled, rendered or written any more,
\* whatever is queued or arrives.
C3_TerminatedAbsorbing ==
    [][ /\ (pc = "waitKey" /\ keyPressed /\ pc' # pc) => pc' \in {"done", "interrupted"}
        /\ pc = "done" => LoopOwned' = LoopOwned ]_vars

\* the loop is done while a frame and a chunk are still queued
C3_Witness ==
    /\ pc = "done"
    /\ qRgbEnc # <<>> /\ qDisparity # <<>>

\* C4: on every exit of the loop the output file has been closed, exactly
\* once, and the window released.
C4_ReleasedOnEveryExit ==
    pc \in Terminal =>
        /\ ~videoFile.open /\ videoFile.closes = 1
        /\ ~window.open

\* C5: at the end of a tick, a stream whose poll returned nothing has the
\* cached value it had when the tick started.
C5_AbsentReadKeepsCache ==
    pc = "waitKey" =>
        /\ inRight = NoFrame => frame = tick.start.frame
        /\ inManip = NoFrame => frameManip = tick.start.frameManip
        /\ inDet.id = 0 => detections = tick.start.detections
        /\ inDisparity.id = 0 => frameDisparity = tick.start.frameDisparity

\* C6: the poll step takes the newest queued item of every stream and leaves
\* no older item behind for a later tick.
C6_PollTakesNewest ==
    [][ (pc = "poll" /\ pc' = "drain") =>
          /\ qRight # <<>> => (inRight' = Last(qRight) /\ qRight' = <<>>)
          /\ qManip # <<>> => (inManip' = Last(qManip) /\ qManip' = <<>>)
          /\ qDet # <<>> => (inDet' = Last(qDet) /\ qDet' = <<>>)
          /\ qDisparity # <<>> => (inDisparity' = Last(qDisparity) /\ qDisparity' = <<>>) ]_vars

\* C7: the image handed to the display is the colour-mapped base of the
\* cached disparity frame with the elements of the cached DetectionSet drawn
\* on it, and nothing else.
C7_ShownIsPureRender ==
    (pc = "waitKey" /\ tick.rendered) =>
        tick.shown.drawn =
            Render(ColorMap(frameDisparity.id, frameDisparity.base),
                   detections.detections, depth_calculated).drawn

\* C8: the position at which the depth map is read lies inside the map.
C8_SampleInsideMap ==
    (fnOut.kind = "fuse" /\ fnOut.sampled) =>
        /\ 0 <= fnOut.center.x /\ fnOut.center.x < resolutionWidth
        /\ 0 <= fnOut.center.y /\ fnOut.center.y < resolutionHeight

\* n is an integer nearest to a / b
Nearest(n, a, b) == 2 * a - b <= 2 * n * b /\ 2 * n * b <= 2 * a + b

\* C9: the normalized disparity is raw * 255 / maxDisparity rounded to a
\* nearest integer and clamped to 0..255.
C9_RoundedAndClamped ==
    fnOut.kind = "convert" =>
        IF fnIn.raw >= maxDisparity
        THEN fnOut.norm = 255
        ELSE Nearest(fnOut.norm, fnIn.raw * 255, maxDisparity)

\* C10: a depth is 0 exactly when the normalized disparity is 0, and otherwise
\* the positive finite quotient focal_length * baseline / normalized; no
\* infinity (den = 0) is left in the map.
C10_DepthZeroIffDisparityZero ==
    fnOut.kind = "convert" =>
        /\ fnOut.depth.den # 0
        /\ fnOut.depth.num = 0 <=> fnOut.norm = 0
        /\ fnOut.norm # 0 =>
              /\ fnOut.depth.num = focal_length * baselineMm
              /\ fnOut.depth.den = fnOut.norm
              /\ fnOut.depth.num > 0 /\ fnOut.depth.den > 0

\* a zero normalized disparity has been converted
C10_Witness ==
    /\ fnOut.kind = "convert"
    /\ fnOut.norm = 0 /\ fnOut.depth = ZeroDepth

\* C11: after clamping, scaling and the shift of the x-coordinates, the pixel
\* box lies in [0, sensorWidth] x [0, sensorHeight], for every resolution at
\* least as wide as tall, odd differences included.
C11_PixelBoxInsideSensor ==
    fnOut.kind = "box" =>
        /\ \A i \in {1, 3} : 0 <= fnOut.box[i] /\ fnOut.box[i] <= fnIn.res[1]
        /\ \A i \in {2, 4} : 0 <= fnOut.box[i] /\ fnOut.box[i] <= fnIn.res[2]

\* an xmax beyond 1 on a sensor with an odd difference of width and height
C11_Witness ==
    /\ fnOut.kind = "box"
    /\ (fnIn.res[1] - fnIn.res[2]) % 2 = 1
    /\ fnIn.bbox[3] > BboxDen
    /\ fnOut.box[3] = fnIn.res[2] + fnOut.offset

\* the detections of a DetectionSet whose label name is in the allow-list
AllowListed(dets) == SelectSeq(dets, LAMBDA d : LabelOk(d) /\ Included(d))

Kinds == {"rectangle", "label", "confidence", "distance"}

\* C12: on a rendering tick the printed lines are those of the allow-listed
\* detections of the cached DetectionSet, in input order; each of them has
\* exactly one rectangle, one label text, one confidence text and one distance
\* text on the image, and nothing else is on it.
C12_OneRenderPerAllowListedDetection ==
    (pc \in {"waitKey", "crashed"} /\ tick.rendered) =>
        LET al == AllowListed(detections.detections) IN
        /\ Len(tick.printed) = Len(al)
        /\ \A i \in 1..Len(al) :
              /\ i <= Len(tick.printed) =>
                    /\ tick.printed[i].name = LabelName(al[i])
                    /\ tick.printed[i].pct = ConfPct(al[i])
              /\ \A k \in Kinds :
                    Cardinality({ e \in frameDisparity.drawn :
                                    e.kind = k /\ e.box = PixelBox(al[i]) }) = 1
        /\ \A e \in frameDisparity.drawn :
              \E i \in 1..Len(al) : e.box = PixelBox(al[i])

\* C17: whatever the bbox value, each of the four coordinates is clamped to
\* [0, 1] and then scaled by the sensor height, on both axes: below 0 gives 0,
\* above 1 gives the height, and every scaled coordinate lies in [0, height]
\* before the crop offset is added.
C17_ClampedThenScaledBySquare ==
    fnOut.kind = "box" =>
        \A i \in 1..4 :
            LET v == fnIn.bbox[i]
                h == fnIn.res[2]
            IN  /\ 0 <= fnOut.scaled[i] /\ fnOut.scaled[i] <= h
                /\ v <= 0 => fnOut.scaled[i] = 0
                /\ v >= BboxDen => fnOut.scaled[i] = h
                /\ (0 < v /\ v < BboxDen) => fnOut.scaled[i] = (v * h) \div BboxDen

C17_Witness ==
    /\ fnOut.kind = "box"
    /\ fnIn.bbox[1] < 0 /\ fnOut.scaled[1] = 0
    /\ fnIn.bbox[3] > BboxDen /\ fnOut.scaled[3] = fnIn.res[2]
    /\ fnIn.res[1] > fnIn.res[2]

\* C18: the crop offset moves only the x coordinates: ymin and ymax of the
\* pixel box equal the scaled ones, xmin and xmax are each larger by exactly
\* (width - height) / 2, and with a zero offset the pixel box is the scaled box.
C18_OffsetOnlyOnX ==
    fnOut.kind = "box" =>
        /\ \A i \in {2, 4} : fnOut.box[i] = fnOut.scaled[i]
        /\ \A i \in {1, 3} :
              2 * (fnOut.box[i] - fnOut.scaled[i]) = fnIn.res[1] - fnIn.res[2]
        /\ fnIn.res[1] = fnIn.res[2] => fnOut.box = fnOut.scaled

C18_Witness ==
    /\ fnOut.kind = "box"
    /\ fnIn.res = <<resolutionWidth, resolutionHeight>>
    /\ fnOut.scaled[2] > 0 /\ fnOut.box[2] = fnOut.scaled[2]
    /\ fnOut.box[1] = fnOut.scaled[1] + 120

\* C16: the label lookup is total: no detection makes the fuser fail on an
\* out-of-range label id.
C16_LabelLookupTotal ==
    fnOut.kind = "fuse" => fnOut.r.err # "IndexError: labelMap"

\* C13: once 'q' is pressed the loop terminates.
C13_QuitLeadsToTerminated == keyPressed ~> (pc \in Terminal)

\* C14: every chunk that was in the h265 queue when the drain of a tick
\* started has been written to the file, in queue order, when that drain
\* ends; until then the ones not yet written are still at the front of the
\* queue.  A drain that started on a full queue has therefore made room for
\* the blocked encoder.
C14_DrainedFully ==
    /\ pc \in {"process", "waitKey"} => tick.pending = <<>>
    /\ pc = "drain" =>
          /\ Len(tick.pending) <= Len(qRgbEnc)
          /\ tick.pending = SubSeq(qRgbEnc, 1, Len(tick.pending))

\* a drain that started on a full queue has ended
C14_Witness ==
    /\ pc = "process"
    /\ tick.start.queued = encQueueSize
    /\ tick.pending = <<>>

\* C19: a render uses the DetectionSet most recently received on the nn
\* queue: the one polled on this tick, otherwise the cached one, however old.
\* Its lines are those of the allow-listed detections of that set.  Before
\* any DetectionSet has been received the cached set is empty, nothing is
\* drawn and nothing is printed.
C19_RenderUsesLastReceivedSet ==
    (pc = "waitKey" /\ tick.rendered) =>
        LET al == AllowListed(detections.detections) IN
        /\ detections.id = received["nn"]
        /\ inDet.id # 0 => detections = inDet
        /\ inDet.id = 0 => detections = tick.start.detections
        /\ Len(tick.printed) = Len(al)
        /\ \A i \in 1..Len(al) :
              i <= Len(tick.printed) =>
                  /\ tick.printed[i].name = LabelName(al[i])
                  /\ tick.printed[i].pct = ConfPct(al[i])
        /\ received["nn"] = 0 =>
              /\ detections = NoDetections
              /\ tick.printed = <<>>
              /\ tick.shown.drawn = {}

\* a fresh disparity frame rendered with a DetectionSet of an earlier tick
C19_Witness ==
    /\ pc = "waitKey" /\ tick.rendered
    /\ inDet.id = 0 /\ inDisparity.id # 0
    /\ detections.id > 0
    /\ tick.printed # <<>>

\* C20: whenever the render block can be entered (a disparity image is
\* cached), the cached depth map and the cached image come from the same
\* disparity frame, the last one received; the depth map is a full map whose
\* every cell is the depth of the image's normalized disparity there, never
\* the scalar of startup.
C20_DepthMapAndImageFromSameFrame ==
    frameDisparity.id # 0 =>
        /\ depth_calculated.shape = "map"
        /\ depth_calculated.src = frameDisparity.id
        /\ pc \in {"poll", "waitKey", "crashed"} =>
              frameDisparity.id = received["disparity"]
        /\ \A c \in Cells :
              depth_calculated.val[c] = DepthOf(focal_length, frameDisparity.base[c])

\* the second disparity frame has replaced the first in both caches
C20_Witness ==
    /\ pc = "waitKey" /\ tick.rendered
    /\ frameDisparity.id = 2
    /\ depth_calculated.src = 2 /\ depth_calculated.shape = "map"
    /\ \E c \in Cells : depth_calculated.val[c] # ZeroDepth

\* a / b > c / d for two finite depths
DepthGreater(p, q) == p.num * q.den > q.num * p.den

====
